---- MODULE Spec2Model ----
(***************************************************************************)
(* A model of pygge's scene graph (src/pygge/core.py): Graphic nodes, the  *)
(* Children registry of each node, and the recursive render pass that      *)
(* allocates a node's image, renders its children and pastes each rendered *)
(* child onto its parent's image.                                          *)
(*                                                                         *)
(* An image is modelled by what it shows: its background colour, its size, *)
(* the rotation applied to it and the sequence of pastes made onto it      *)
(* (each paste holding the box and a snapshot of the pasted image).        *)
(* Images are mutable Python objects, so a render pass runs on a heap of   *)
(* image objects; between operations the only references left are the      *)
(* nodes' _image attributes.                                               *)
(***************************************************************************)
EXTENDS Integers, Sequences, FiniteSets, TLC

\* ------------------------------------------------------------------ bounds
NumNodes == 3
MaxOps == 2
MaxPasses == 2
MaxDepth == 8
MaxRegistryOps == 3
MaxCoordinate == 2

Nodes == 1..NumNodes
None == 0
Names == {"a", "b"}
NoName == "None"
NoPos == << >>
Positions == {NoPos, <<0, 0>>, <<1, 1>>}
Colors == {"None", "white"}
Layers == {0, 1}
Angles == {0, 90}

\* The size each Graphic is constructed with.
SizeOf(n) == IF n = 1 THEN <<3, 3>> ELSE <<2, 1>>

\* parent .. image are the attributes of the graphics; call, trace and result
\* record the last call made and the pass it ran, repeated whether that call
\* was a render() repeating the call before it; argsortTies is how the sort
\* orders equal keys; nops and npasses count the calls made.
VARIABLES parent, name, children, position, color, layer, angle, anchor,
          coordinate_frame, image, call, repeated, trace, result, argsortTies, nops, npasses

vars == <<parent, name, children, position, color, layer, angle, anchor,
          coordinate_frame, image, call, repeated, trace, result, argsortTies, nops, npasses>>

attrs == <<position, color, layer, angle, anchor, coordinate_frame>>

\* ------------------------------------------------------------------ images
NoImage == [bg |-> "absent", size |-> <<0, 0>>, rot |-> 0, ops |-> << >>]

\* Image.new("RGBA", size, color or '#0000')
NewImage(sz, col) == [bg |-> col, size |-> sz, rot |-> 0, ops |-> << >>]

\* A rotation that keeps the canvas of the image as it is
RotateInPlace(img, a) ==
    IF a = 90 THEN [img EXCEPT !.rot = (img.rot + a) % 360] ELSE img

\* image.rotate(angle, expand=True), for the multiples of 90 degrees of Angles
Rotate(img, a) ==
    IF a = 90 THEN [img EXCEPT !.size = <<img.size[2], img.size[1]>>, !.rot = (img.rot + a) % 360]
    ELSE img

Ok == [kind |-> "ok", node |-> None]
NotRun == [kind |-> "none", node |-> None]

\* ------------------------------------------------------------------ layout
\* PILArray.inttuple: astype(int) truncates toward zero; x2 is twice the value
HalfToInt(x2) == IF x2 >= 0 THEN x2 \div 2 ELSE -((-x2) \div 2)

Min(a, b) == IF a <= b THEN a ELSE b
Max(a, b) == IF a >= b THEN a ELSE b

\* A clamp that keeps values from below only
ClampFromBelow(values, sz) == <<Max(values[1], 0), Max(values[2], 0)>>

\* Graphic.clamp_to_size_tuple: np.clip(values, (0, 0), size)
ClampToSizeTuple(values, sz) ==
    <<Min(Max(values[1], 0), sz[1]), Min(Max(values[2], 0), sz[2])>>

\* A corner whose center frame measures y downwards, as x
Corner1SameSign(psize, pos, frame, anch, imsize) ==
    LET pos2 == IF frame = "upper left"
                THEN <<2 * pos[1], 2 * pos[2]>>
                ELSE <<psize[1] + 2 * pos[1], psize[2] + 2 * pos[2]>>
        shift2 == IF anch = "upper left" THEN <<0, 0>> ELSE imsize
    IN  <<HalfToInt(pos2[1] - shift2[1]), HalfToInt(pos2[2] - shift2[2])>>

\* Graphic._get_render_box: corner1 = (position - shift).inttuple, for a parent
\* of size psize and a (rotated) image of size imsize. Positions and shifts
\* are kept doubled so that the halves stay integers.
Corner1(psize, pos, frame, anch, imsize) ==
    LET pos2 == IF frame = "upper left"
                THEN <<2 * pos[1], 2 * pos[2]>>
                ELSE <<psize[1] + 2 * pos[1], psize[2] - 2 * pos[2]>>
        shift2 == IF anch = "upper left" THEN <<0, 0>> ELSE imsize
    IN  <<HalfToInt(pos2[1] - shift2[1]), HalfToInt(pos2[2] - shift2[2])>>

\* Graphic._get_render_box: corner2 and the two clamped corners
RenderBox(psize, pos, frame, anch, imsize) ==
    LET corner1 == Corner1(psize, pos, frame, anch, imsize)
        corner2 == <<corner1[1] + imsize[1], corner1[2] + imsize[2]>>
    IN  ClampToSizeTuple(corner1, psize) \o ClampToSizeTuple(corner2, psize)

\* Graphic._get_render_box(image), with imsize the size of the (rotated) image
GetRenderBox(n, imsize) ==
    RenderBox(SizeOf(parent[n]), position[n], coordinate_frame[n], anchor[n], imsize)

\* The size check, were it to compare the widths only
TooBigInWidth(imsize, psize) == imsize[1] > psize[1]

\* np.any(image.size > self.parent.size)
TooBig(imsize, psize) == imsize[1] > psize[1] \/ imsize[2] > psize[2]

\* PIL's Image.paste with a 4-tuple box raises ValueError ("images do not
\* match") unless the box has exactly the size of the pasted image.
BoxMatches(box, imsize) ==
    /\ box[3] - box[1] = imsize[1]
    /\ box[4] - box[2] = imsize[2]

\* ------------------------------------------------------------------ children
\* Children._get_just_child_names: the registry's keys in insertion order
ChildNames(p) == [i \in 1..Len(children[p]) |-> children[p][i].name]

HasName(p, k) == \E i \in 1..Len(children[p]) : children[p][i].name = k

\* A sort whose order of equal keys changes from one call to the next
TieBeforeVarying(j, i) == IF npasses % 2 = 0 THEN j < i ELSE j > i

\* np.argsort(layers): the default kind is an unstable sort, so the order of
\* equal keys is whatever the build's sort does with them (argsortTies); it is
\* a fixed function of the input.
TieBefore(j, i) == IF argsortTies = "stable" THEN j < i ELSE j > i

ArgSort(ls) ==
    LET Before(j, i) == ls[j] < ls[i] \/ (ls[j] = ls[i] /\ TieBefore(j, i))
        Rank(i) == Cardinality({j \in 1..Len(ls) : Before(j, i)}) + 1
    IN  [k \in 1..Len(ls) |-> CHOOSE i \in 1..Len(ls) : Rank(i) = k]

\* Children._get_children_in_order
GetChildrenInOrder(p) ==
    LET layers == [i \in 1..Len(children[p]) |-> layer[children[p][i].node]]
        order == ArgSort(layers)
    IN  [k \in 1..Len(children[p]) |-> children[p][order[k]].node]

\* ------------------------------------------------------------------ render
(* A render pass runs on a record s:                                       *)
(*   img   each node's _image: 0 for None, else an index of heap           *)
(*   heap  the image objects                                               *)
(*   log   the events of the pass so far                                   *)
(*   err   Ok, or the exception that is propagating and the node raising it*)
(* stk is the stack of nodes whose render() is running.                    *)

Event(e, n, d, im, stk) == [ev |-> e, node |-> n, dst |-> d, img |-> im, stack |-> stk]

Log(s, e) == [s EXCEPT !.log = Append(@, e)]

\* raise ValueError(...) in n's render; every frame of stk is unwound
Raise(s, kind, n, stk) ==
    [Log(s, Event("raise", n, None, NoImage, stk)) EXCEPT !.err = [kind |-> kind, node |-> n]]

\* The pass record of the current state: object n of the heap is node n's image.
StartState ==
    [img  |-> [n \in Nodes |-> IF image[n] = NoImage THEN 0 ELSE n],
     heap |-> [n \in Nodes |-> image[n]],
     log  |-> << >>,
     err  |-> Ok]

\* The nodes' images a pass record leaves behind.
ImagesOf(s) == [n \in Nodes |-> IF s.img[n] = 0 THEN NoImage ELSE s.heap[s.img[n]]]

\* Graphic.render, first check
PositionWithoutParent(n) == position[n] # NoPos /\ parent[n] = None

\* Graphic.render, were the second check left out
ParentWithoutPositionUnchecked(n) == FALSE

\* Graphic.render, second check
ParentWithoutPosition(n) == position[n] = NoPos /\ parent[n] # None

\* Graphic.render, third check
NothingToShow(n) == Len(children[n]) = 0 /\ color[n] = "None"

\* _prepare_image, were it to keep an image that is already there
PrepareImageOnce(n, s, stk) ==
    IF s.img[n] # 0 THEN Log(s, Event("alloc", n, None, s.heap[s.img[n]], stk))
    ELSE LET im == NewImage(SizeOf(n), color[n])
             s1 == [s EXCEPT !.heap = Append(@, im), !.img[n] = Len(s.heap) + 1]
         IN  Log(s1, Event("alloc", n, None, im, stk))

\* Canvas._prepare_image: self._image = Image.new(...)
PrepareImage(n, s, stk) ==
    LET im == NewImage(SizeOf(n), color[n])
        s1 == [s EXCEPT !.heap = Append(@, im), !.img[n] = Len(s.heap) + 1]
    IN  Log(s1, Event("alloc", n, None, im, stk))

\* image.paste(src, box=box, mask=src) on object dref, called by src's render
Paste(src, sref, dst, s, stk) ==
    LET im == s.heap[sref]
        box == GetRenderBox(src, im.size)
        dref == s.img[dst]
    IN  IF ~BoxMatches(box, im.size) THEN Raise(s, "mismatch", src, stk)
        ELSE Log([s EXCEPT !.heap[dref].ops = Append(@, [src |-> src, box |-> box, img |-> im])],
                 Event("paste", src, dst, im, stk))

RECURSIVE Render(_, _, _)
RECURSIVE RenderEach(_, _, _, _)

\* Canvas.image, were it to render on every read
CanvasImageUncached(p, s, stk) == Render(p, s, stk)

\* Canvas.image, read while the frames of stk are running
CanvasImage(p, s, stk) == IF s.img[p] # 0 THEN s ELSE Render(p, s, stk)

\* Children.render: for child in ordered_children: child.render()
RenderEach(order, i, s, stk) ==
    IF i > Len(order) \/ s.err # Ok THEN s
    ELSE RenderEach(order, i + 1, Render(order[i], s, stk), stk)

\* Graphic.render after super().render(): rotate, then keep or paste on the parent
FinishRender(n, s, stk) ==
    LET rotated == angle[n] # 0
        s1 == IF rotated THEN [s EXCEPT !.heap = Append(@, Rotate(s.heap[s.img[n]], angle[n]))]
              ELSE s
        ref == IF rotated THEN Len(s1.heap) ELSE s.img[n]
    IN  IF parent[n] = None THEN [s1 EXCEPT !.img[n] = ref]
        ELSE IF TooBig(s1.heap[ref].size, SizeOf(parent[n])) THEN Raise(s1, "oversize", n, stk)
        ELSE LET s2 == CanvasImage(parent[n], s1, stk)
             IN  IF s2.err # Ok THEN s2 ELSE Paste(n, ref, parent[n], s2, stk)

\* Graphic.render, called while the frames of stk are running
GraphicRender(n, s, stk) ==
    LET here == Append(stk, n)
        s0 == Log(s, Event("enter", n, None, NoImage, here))
    IN  IF Len(stk) >= MaxDepth THEN Raise(s0, "recursion", n, here)
        ELSE IF PositionWithoutParent(n) THEN Raise(s0, "detached", n, here)
        ELSE IF ParentWithoutPosition(n) THEN Raise(s0, "detached", n, here)
        ELSE IF NothingToShow(n) THEN Raise(s0, "boring", n, here)
        ELSE LET s1 == PrepareImage(n, s0, here)
                 s2 == RenderEach(GetChildrenInOrder(n), 1, s1, here)
             IN  IF s2.err # Ok THEN s2 ELSE FinishRender(n, s2, here)

\* The graphics of a pass that are Shapes; a pass record without the field
\* has none.
IsShape(n, s) == "shapes" \in DOMAIN s /\ n \in s.shapes

\* Shape.cut_out_shape: a new transparent image with the old one pasted
\* through the polygon mask
CutOutShape(n, im) ==
    [bg |-> "cut", size |-> SizeOf(n), rot |-> 0,
     ops |-> <<[src |-> n, box |-> <<0, 0, SizeOf(n)[1], SizeOf(n)[2]>>, img |-> im]>>]

\* Shape.render: super().render(), then self._image = self.cut_out_shape(self.image)
ShapeRender(n, s, stk) ==
    LET s1 == GraphicRender(n, s, stk)
        here == Append(stk, n)
    IN  IF s1.err # Ok THEN s1
        ELSE LET cut == CutOutShape(n, s1.heap[s1.img[n]])
                 s2 == [s1 EXCEPT !.heap = Append(@, cut), !.img[n] = Len(s1.heap) + 1]
             IN  Log(s2, Event("cut", n, None, cut, here))

\* n.render(), called while the frames of stk are running
Render(n, s, stk) ==
    IF IsShape(n, s) THEN ShapeRender(n, s, stk) ELSE GraphicRender(n, s, stk)

\* ------------------------------------------------------------------ actions
Init ==
    /\ parent = [n \in Nodes |-> None]
    /\ name = [n \in Nodes |-> NoName]
    /\ children = [n \in Nodes |-> << >>]
    /\ position = [n \in Nodes |-> IF n = 1 THEN NoPos ELSE <<0, 0>>]
    /\ color = [n \in Nodes |-> "white"]
    /\ \E l \in Layers : layer = [n \in Nodes |-> IF n = 2 THEN l ELSE 0]
    /\ \E a \in Angles : angle = [n \in Nodes |-> IF n = 3 THEN a ELSE 0]
    /\ anchor = [n \in Nodes |-> "upper left"]
    /\ coordinate_frame = [n \in Nodes |-> "upper left"]
    /\ image = [n \in Nodes |-> NoImage]
    /\ call = [op |-> "init", node |-> None]
    /\ repeated = FALSE
    /\ trace = << >>
    /\ result = NotRun
    /\ argsortTies \in {"stable", "swapped"}
    /\ nops = 0
    /\ npasses = 0

\* A call that renders nothing leaves no pass behind.
NoPass == trace' = << >> /\ result' = NotRun

Edit ==
    /\ nops < MaxOps
    /\ nops' = nops + 1
    /\ call' = [op |-> "edit", node |-> None]
    /\ repeated' = FALSE
    /\ NoPass
    /\ UNCHANGED <<image, argsortTies, npasses>>

\* Children.__setattr__: p.children.k = c
SetEntry(reg, k, c) ==
    IF \E i \in 1..Len(reg) : reg[i].name = k
    THEN [i \in 1..Len(reg) |-> IF reg[i].name = k THEN [name |-> k, node |-> c] ELSE reg[i]]
    ELSE Append(reg, [name |-> k, node |-> c])

Assign(p, k, c) ==
    /\ name' = [name EXCEPT ![c] = k]
    /\ parent' = [parent EXCEPT ![c] = p]
    /\ children' = [children EXCEPT ![p] = SetEntry(@, k, c)]
    /\ UNCHANGED attrs

Attach(p, k, c) == Edit /\ Assign(p, k, c)

\* A delattr that drops the oldest entry, whatever its name
DelFirstEntry(reg, k) == IF reg = << >> THEN reg ELSE Tail(reg)

\* delattr(registry, k)
DelEntry(reg, k) == SelectSeq(reg, LAMBDA e : e.name # k)

\* remove(child): delattr(child.parent.children, child.name); the method is
\* bound when the child is attached, and delattr raises for a missing name
Delete(c) ==
    /\ parent[c] # None
    /\ HasName(parent[c], name[c])
    /\ children' = [children EXCEPT ![parent[c]] = DelEntry(@, name[c])]
    /\ UNCHANGED <<parent, name, attrs>>

Remove(c) == Edit /\ Delete(c)

SetPosition(n, v) ==
    /\ position[n] # v
    /\ Edit
    /\ position' = [position EXCEPT ![n] = v]
    /\ UNCHANGED <<parent, name, children, color, layer, angle, anchor, coordinate_frame>>

SetColor(n, v) ==
    /\ color[n] # v
    /\ Edit
    /\ color' = [color EXCEPT ![n] = v]
    /\ UNCHANGED <<parent, name, children, position, layer, angle, anchor, coordinate_frame>>

SetLayer(n, v) ==
    /\ layer[n] # v
    /\ Edit
    /\ layer' = [layer EXCEPT ![n] = v]
    /\ UNCHANGED <<parent, name, children, position, color, angle, anchor, coordinate_frame>>

SetAngle(n, v) ==
    /\ angle[n] # v
    /\ Edit
    /\ angle' = [angle EXCEPT ![n] = v]
    /\ UNCHANGED <<parent, name, children, position, color, layer, anchor, coordinate_frame>>

\* n.render(), called by the user
RenderPass(n) == Render(n, StartState, << >>)

CallRender(n) ==
    LET s == RenderPass(n)
    IN  /\ npasses < MaxPasses
        /\ npasses' = npasses + 1
        /\ call' = [op |-> "render", node |-> n]
        /\ repeated' = (call = [op |-> "render", node |-> n])
        /\ image' = ImagesOf(s)
        /\ trace' = s.log
        /\ result' = s.err
        /\ UNCHANGED <<parent, name, children, attrs, argsortTies, nops>>

\* n.image, read by the user: renders only when no image is cached
ImagePass(n) == CanvasImage(n, StartState, << >>)

ReadImage(n) ==
    LET s == ImagePass(n)
    IN  /\ image[n] = NoImage => npasses < MaxPasses
        /\ npasses' = IF image[n] = NoImage THEN npasses + 1 ELSE npasses
        /\ call' = [op |-> "image", node |-> n]
        /\ repeated' = FALSE
        /\ image' = ImagesOf(s)
        /\ trace' = s.log
        /\ result' = IF s.log = << >> THEN NotRun ELSE s.err
        /\ UNCHANGED <<parent, name, children, attrs, argsortTies, nops>>

Next ==
    \/ \E p \in Nodes, k \in Names, c \in Nodes : Attach(p, k, c)
    \/ \E c \in Nodes : Remove(c)
    \/ \E n \in Nodes, v \in Positions : SetPosition(n, v)
    \/ \E n \in Nodes, v \in Colors : SetColor(n, v)
    \/ \E n \in Nodes, v \in Layers : SetLayer(n, v)
    \/ \E n \in Nodes, v \in Angles : SetAngle(n, v)
    \/ \E n \in Nodes : CallRender(n)
    \/ \E n \in Nodes : ReadImage(n)

Spec == Init /\ [][Next]_vars

\* ------------------------------------------------------------------ the registry alone
\* Assignments to children and remove() calls on graphics that are never
\* rendered. call records the call, the registries before it and, for a
\* remove(), whether it takes out the graphic that the call before it assigned
\* under a new name (before is then the registries before that assignment).
PlainInit ==
    /\ Init
    /\ layer = [n \in Nodes |-> 0]
    /\ angle = [n \in Nodes |-> 0]
    /\ argsortTies = "stable"

RegistryCall ==
    /\ nops < MaxRegistryOps
    /\ nops' = nops + 1
    /\ repeated' = FALSE
    /\ NoPass
    /\ UNCHANGED <<image, argsortTies, npasses>>

RegistryAssign(p, k, c) ==
    /\ RegistryCall
    /\ Assign(p, k, c)
    /\ call' = [op |-> "assign", node |-> c, owner |-> p, name |-> k,
                new |-> ~HasName(p, k), before |-> children]

RegistryRemove(c) ==
    LET undoes == call.op = "assign" /\ call.new /\ call.node = c
    IN  /\ RegistryCall
        /\ Delete(c)
        /\ call' = [op |-> "remove", node |-> c, owner |-> parent[c], name |-> name[c],
                    undoes |-> undoes, before |-> IF undoes THEN call.before ELSE children]

RegistryNext ==
    \/ \E p \in Nodes, k \in Names, c \in Nodes : RegistryAssign(p, k, c)
    \/ \E c \in Nodes : RegistryRemove(c)

SpecRegistry == PlainInit /\ [][RegistryNext]_vars

\* ------------------------------------------------------------------ shapes
\* The graphics with graphic 2 a Shape: assignments to children and render().
Shapes == {2}

ShapeStartState ==
    [img |-> StartState.img, heap |-> StartState.heap, log |-> StartState.log,
     err |-> StartState.err, shapes |-> Shapes]

ShapePass(n) == Render(n, ShapeStartState, << >>)

ShapeCallRender(n) ==
    LET s == ShapePass(n)
    IN  /\ npasses < MaxPasses
        /\ npasses' = npasses + 1
        /\ call' = [op |-> "render", node |-> n]
        /\ repeated' = (call = [op |-> "render", node |-> n])
        /\ image' = ImagesOf(s)
        /\ trace' = s.log
        /\ result' = s.err
        /\ UNCHANGED <<parent, name, children, attrs, argsortTies, nops>>

ShapeNext ==
    \/ \E p \in Nodes, k \in Names, c \in Nodes : Attach(p, k, c)
    \/ \E n \in Nodes : ShapeCallRender(n)

SpecShape == PlainInit /\ [][ShapeNext]_vars

\* ------------------------------------------------------------------ the box alone
\* _get_render_box on its inputs: the parent's size, the position, the
\* coordinate frame, the anchor and the size of the image to paste. call
\* records the inputs and result the first corner and the box returned. The
\* call changes nothing of the graphics, so one call shows all it does.
Coordinates == (0 - MaxCoordinate)..MaxCoordinate
BoxSizes == {<<4, 4>>, <<3, 3>>, <<2, 2>>, <<2, 1>>, <<1, 2>>}
Frames == {"upper left", "center"}

CallGetRenderBox(psize, pos, frame, anch, imsize) ==
    /\ call.op = "init"
    /\ call' = [op |-> "_get_render_box", node |-> None, psize |-> psize, position |-> pos,
                coordinate_frame |-> frame, anchor |-> anch, imsize |-> imsize]
    /\ result' = [kind |-> "box", node |-> None,
                  corner1 |-> Corner1(psize, pos, frame, anch, imsize),
                  box |-> RenderBox(psize, pos, frame, anch, imsize)]
    /\ UNCHANGED <<parent, name, children, attrs, image, repeated, trace,
                   argsortTies, nops, npasses>>

BoxNext ==
    \E psize \in BoxSizes, x \in Coordinates, y \in Coordinates,
       frame \in Frames, anch \in Frames, imsize \in BoxSizes :
        CallGetRenderBox(psize, <<x, y>>, frame, anch, imsize)

SpecBox == PlainInit /\ [][BoxNext]_vars

\* ------------------------------------------------------------------ two-tuples and flags
\* Numbers are counted in halves: 1 stands for 0.5, -2 for -1.0.
MaxHalves == 3
Halves == (0 - MaxHalves)..MaxHalves
Classes == {"Float2d", "Int2d", "PositiveFloat", "PositiveInt"}
IntClasses == {"Int2d", "PositiveInt"}
PositiveClasses == {"PositiveFloat", "PositiveInt"}

ValueError == [kind |-> "ValueError"]
TypeError == [kind |-> "TypeError"]

\* int(x) and float(x) of the setters
Cast(cls, h) == IF cls \in IntClasses THEN 2 * HalfToInt(h) ELSE h

\* Positive._is_positive raises
NotPositive(h) == h <= 0

\* The x and y setters of a class: the decorator's check, then the cast
SetterRaises(cls, h) == cls \in PositiveClasses /\ NotPositive(h)

\* TwoTuple.__init__ of a concrete class
TwoTuple(cls, x, y) ==
    IF SetterRaises(cls, x) \/ SetterRaises(cls, y) THEN ValueError
    ELSE [kind |-> "vector", cls |-> cls, x |-> Cast(cls, x), y |-> Cast(cls, y)]

\* The vectors that construction can produce
Vectors == {v \in {TwoTuple(cls, x, y) : cls \in Classes, x \in Halves, y \in Halves} :
                v.kind = "vector"}

Operators == {"add", "sub", "rsub", "mul"}

\* Products of two numbers that are again counted in halves
Exact(opr, a, b) == opr = "mul" => (a * b) % 2 = 0

Apply(opr, a, b) ==
    CASE opr = "add" -> a + b
      [] opr = "sub" -> a - b
      [] opr = "rsub" -> b - a
      [] opr = "mul" -> (a * b) \div 2

\* __add__, __sub__, __rsub__, __mul__ with a two-dimensional other
Arithmetic(opr, v, w) == TwoTuple(v.cls, Apply(opr, v.x, w[1]), Apply(opr, v.y, w[2]))

\* v.x = h, v.y = h: the receiver afterwards
SetAttribute(v, comp, h) ==
    IF SetterRaises(v.cls, h) THEN v
    ELSE IF comp = "x" THEN [v EXCEPT !.x = Cast(v.cls, h)]
    ELSE [v EXCEPT !.y = Cast(v.cls, h)]

NoBound == << >>

\* TwoTuple.clamp
clamp(v, min_, max_) ==
    IF min_ = NoBound /\ max_ = NoBound THEN ValueError
    ELSE LET c0 == <<v.x, v.y>>
             c1 == IF min_ # NoBound
                   THEN <<Max(c0[1], min_[1]), Max(c0[2], min_[2])>> ELSE c0
             c2 == IF max_ # NoBound
                   THEN <<Min(c1[1], max_[1]), Min(c1[2], max_[2])>> ELSE c1
         IN  TwoTuple(v.cls, c2[1], c2[2])

\* PositiveInt._cast_value of the trait, then TwoTuple(...)
TraitPositiveInt(x, y) ==
    IF NotPositive(x) \/ NotPositive(y) THEN ValueError
    ELSE [kind |-> "vector", cls |-> "PositiveInt",
          x |-> 2 * HalfToInt(x), y |-> 2 * HalfToInt(y)]

\* descriptors.Positive.__set__: the value is stored, then it is validated
PositiveSet(held, value) ==
    [held |-> value, raised |-> ~(value[1] > 0 /\ value[2] > 0)]

FlagValues == {"upper left", "center", "lower right", "Center"}
Flags == {"anchor", "coordinate_frame"}
Engines == {"traitlets", "descriptors"}

\* Anchor.allowables, CoordinateFrame.allowables, LocationString._ALLOWABLE
Allowables(engine, flag) ==
    IF engine = "traitlets" /\ flag = "anchor" THEN {"upper left"}
    ELSE {"upper left", "center"}

\* FlagTrait.validate and Alignment.__set__: nothing is stored when it raises
AssignFlag(engine, flag, held, value) ==
    IF value \in Allowables(engine, flag)
    THEN [held |-> value, raised |-> FALSE]
    ELSE [held |-> held, raised |-> TRUE]

ValueCall(c, r) ==
    /\ call' = c
    /\ result' = r
    /\ UNCHANGED <<parent, name, children, attrs, image, repeated, trace,
                   argsortTies, nops, npasses>>

CallConstruct(cls, x, y) ==
    ValueCall([op |-> "construct", cls |-> cls, x |-> x, y |-> y], TwoTuple(cls, x, y))

CallTrait(x, y) ==
    ValueCall([op |-> "trait", cls |-> "PositiveInt", x |-> x, y |-> y],
              TraitPositiveInt(x, y))

CallArithmetic(opr, v, w, inplace) ==
    /\ Exact(opr, v.x, w[1]) /\ Exact(opr, v.y, w[2])
    /\ ValueCall([op |-> "arithmetic", operator |-> opr, receiver |-> v, other |-> w,
                  inplace |-> inplace],
                 [kind |-> "value", value |-> Arithmetic(opr, v, w), receiver |-> v,
                  other |-> w])

CallSetItem(v, i, h) ==
    ValueCall([op |-> "setitem", receiver |-> v, index |-> i, value |-> h],
              [kind |-> "TypeError", receiver |-> v])

CallSetAttribute(v, comp, h) ==
    ValueCall([op |-> "setattr", receiver |-> v, component |-> comp, value |-> h],
              [kind |-> IF SetterRaises(v.cls, h) THEN "ValueError" ELSE "set",
               receiver |-> SetAttribute(v, comp, h)])

CallClamp(v, min_, max_) ==
    LET once == clamp(v, min_, max_)
    IN  ValueCall([op |-> "clamp", receiver |-> v, min_ |-> min_, max_ |-> max_],
                  [kind |-> "clamp", once |-> once,
                   twice |-> IF once.kind = "vector" THEN clamp(once, min_, max_) ELSE once])

CallSetSize(held, value) ==
    ValueCall([op |-> "size", held |-> held, value |-> value], PositiveSet(held, value))

CallAssignFlag(engine, flag, held, value) ==
    ValueCall([op |-> "flag", engine |-> engine, flag |-> flag, held |-> held,
               value |-> value],
              AssignFlag(engine, flag, held, value))

Bounds == {NoBound} \cup {<<a, a>> : a \in Halves}

FromInit == call.op = "init"

ValueNext ==
    \/ FromInit /\ \E cls \in Classes, x \in Halves, y \in Halves : CallConstruct(cls, x, y)
    \/ FromInit /\ \E x \in Halves, y \in Halves : CallTrait(x, y)
    \/ FromInit /\ \E opr \in Operators, v \in Vectors, a \in Halves, inplace \in BOOLEAN :
           CallArithmetic(opr, v, <<a, a>>, inplace)
    \/ FromInit /\ \E v \in Vectors, i \in 0..1, h \in Halves : CallSetItem(v, i, h)
    \/ FromInit /\ \E v \in Vectors, comp \in {"x", "y"}, h \in Halves :
           CallSetAttribute(v, comp, h)
    \/ FromInit /\ \E v \in Vectors, min_ \in Bounds, max_ \in Bounds : CallClamp(v, min_, max_)
    \/ FromInit /\ \E held \in {<<2, 2>>, <<4, 2>>}, x \in Halves, y \in Halves :
           CallSetSize(held, <<x, y>>)
    \/ FromInit /\ \E engine \in Engines, flag \in Flags, value \in FlagValues :
           \E held \in Allowables(engine, flag) : CallAssignFlag(engine, flag, held, value)

SpecValues == PlainInit /\ [][ValueNext]_vars

\* ------------------------------------------------------------------ the crop
\* graphic.Graphic of the later engine: a child is cropped to its clamped box.
\* PositiveInt * 0.5: the half of a size, cast to int by the setter
HalfSize(sz) == <<sz[1] \div 2, sz[2] \div 2>>

\* HasParent._relative_position
RelativePosition(psize, pos, frame) ==
    IF frame = "upper left" THEN pos
    ELSE <<pos[1] + HalfSize(psize)[1], (0 - pos[2]) + HalfSize(psize)[2]>>

\* HasParent._numeric_anchor
NumericAnchor(anch, sz) == IF anch = "upper left" THEN <<0, 0>> ELSE HalfSize(sz)

\* HasParent.position_on_parent
PositionOnParent(psize, pos, frame, anch, sz) ==
    <<RelativePosition(psize, pos, frame)[1] - NumericAnchor(anch, sz)[1],
      RelativePosition(psize, pos, frame)[2] - NumericAnchor(anch, sz)[2]>>

\* HasParent.free_box
FreeBox(psize, pos, frame, anch, sz) ==
    LET c1 == PositionOnParent(psize, pos, frame, anch, sz)
    IN  <<c1[1], c1[2], c1[1] + sz[1], c1[2] + sz[2]>>

\* clamp(min_=(0, 0), max_=self.parent.size) of a corner
ClampCorner(c, psize) ==
    <<Min(Max(c[1], 0), psize[1]), Min(Max(c[2], 0), psize[2])>>

\* HasParent.clamped_box
ClampedBox(psize, pos, frame, anch, sz) ==
    LET f == FreeBox(psize, pos, frame, anch, sz)
        c1 == ClampCorner(<<f[1], f[2]>>, psize)
        c2 == ClampCorner(<<f[3], f[4]>>, psize)
    IN  <<c1[1], c1[2], c2[1], c2[2]>>

\* A cropping box that is the offset alone
CroppingBoxOfOffset(offset, imsize) == offset

\* cropping_offset + (0, 0) + self.image.size
CroppingBox(offset, imsize) ==
    <<offset[1], offset[2], offset[3] + imsize[1], offset[4] + imsize[2]>>

\* The size of Image.crop(box)
CropSize(box) == <<box[3] - box[1], box[4] - box[2]>>

\* Graphic.crop: whether the image is cropped, with which box, and the size of
\* the image returned
Crop(psize, pos, frame, anch, sz) ==
    LET free == FreeBox(psize, pos, frame, anch, sz)
        clamped == ClampedBox(psize, pos, frame, anch, sz)
        offset == [i \in 1..4 |-> clamped[i] - free[i]]
        box == CroppingBox(offset, sz)
    IN  IF \E i \in 1..4 : offset[i] # 0
        THEN [kind |-> "crop", free_box |-> free, clamped_box |-> clamped,
              cropped |-> TRUE, box |-> box, size |-> CropSize(box)]
        ELSE [kind |-> "crop", free_box |-> free, clamped_box |-> clamped,
              cropped |-> FALSE, box |-> << >>, size |-> sz]

CallCrop(psize, pos, frame, anch, sz) ==
    /\ call.op = "init"
    /\ call' = [op |-> "crop", psize |-> psize, position |-> pos,
                coordinate_frame |-> frame, anchor |-> anch, size |-> sz]
    /\ result' = Crop(psize, pos, frame, anch, sz)
    /\ UNCHANGED <<parent, name, children, attrs, image, repeated, trace,
                   argsortTies, nops, npasses>>

CropNext ==
    FromInit /\ \E psize \in BoxSizes, x \in Coordinates, y \in Coordinates,
       frame \in Frames, anch \in Frames, sz \in BoxSizes :
        CallCrop(psize, <<x, y>>, frame, anch, sz)

SpecCrop == PlainInit /\ [][CropNext]_vars

\* ------------------------------------------------------------------ text
\* A text is its number of characters, none of them a space; a font draws
\* every character font size wide and every line font size high.
MaxLen == 4
MaxFont == 4
MaxBox == 3
TextEngines == {"core", "text"}

\* font_size -= 2 (core.py), font_size -= 1 (text.py)
Step(engine) == IF engine = "core" THEN 2 ELSE 1

\* A decrement twice as large
NextFontSizeDoubled(engine, fs) == fs - 2 * Step(engine)

NextFontSize(engine, fs) == fs - Step(engine)

NoBlock == [lines |-> 0 - 1, longest |-> 0 - 1]

\* The text as it is, on one line
Line(len) == [lines |-> IF len = 0 THEN 0 ELSE 1, longest |-> len]

\* textwrap(text, width) joined by newlines, for width > 0
TextWrap(len, width) ==
    [lines |-> (len + width - 1) \div width, longest |-> Min(len, width)]

\* draw.textsize / draw.multiline_textsize with a font of size fs
TextSize(block, fs) == <<block.longest * fs, block.lines * fs>>

\* The width and height the search compares with: the graphic's own size
\* (core.py), the parent's size less the position (text.py)
Available(engine, box, pos) ==
    IF engine = "core" THEN box ELSE <<box[1] - pos[1], box[2] - pos[2]>>

RECURSIVE FitWidthFrom(_, _, _, _)
\* The loop of _fit_width from n_lines = n on
FitWidthFrom(len, fs, width_available, n) ==
    LET width == len \div n
        wrapped == TextWrap(len, width)
    IN  IF width <= 0
        THEN [error |-> "invalid width", n_lines |-> n, wrapped |-> NoBlock]
        ELSE IF TextSize(wrapped, fs)[1] <= width_available
        THEN [error |-> "none", n_lines |-> n, wrapped |-> wrapped]
        ELSE FitWidthFrom(len, fs, width_available, n + 1)

\* _fit_width
FitWidth(len, fs, width_available) == FitWidthFrom(len, fs, width_available, 1)

RECURSIVE ShrinkFrom(_, _, _, _, _)
\* The loop of _shrink_to_box / _shrunk_to_box from font_size = fs on; loaded
\* are the sizes ImageFont.truetype was called with
ShrinkFrom(engine, len, available, fs, loaded) ==
    LET now == Append(loaded, fs)
        fit == FitWidth(len, fs, available[1])
    IN  IF fs <= 0
        THEN [error |-> "font size", font_size |-> fs, n_lines |-> 0,
              wrapped |-> NoBlock, loaded |-> now]
        ELSE IF fit.error # "none"
        THEN [error |-> fit.error, font_size |-> fs, n_lines |-> fit.n_lines,
              wrapped |-> NoBlock, loaded |-> now]
        ELSE IF TextSize(fit.wrapped, fs)[2] <= available[2]
        THEN [error |-> "none", font_size |-> fs, n_lines |-> fit.n_lines,
              wrapped |-> fit.wrapped, loaded |-> now]
        ELSE ShrinkFrom(engine, len, available, NextFontSize(engine, fs), now)

\* _shrink_to_box (core.py), _shrunk_to_box (text.py)
ShrinkToBox(engine, len, fs, box, pos) ==
    ShrinkFrom(engine, len, Available(engine, box, pos), fs, << >>)

\* Text._ensure_leq raises
NotLeq(sz, bounds) == ~(sz[1] <= bounds[1] /\ sz[2] <= bounds[2])

Outcome(error, drawn, fs, search) ==
    [kind |-> "text", error |-> error, drawn |-> drawn, font_size |-> fs, search |-> search]

NoSearch ==
    [error |-> "none", font_size |-> 0, n_lines |-> 0, wrapped |-> NoBlock, loaded |-> << >>]

\* Text._prepare_image and TextBox._prepare_image of core.py
CoreTextRender(wrap, len, fs, box, pos) ==
    LET s == ShrinkToBox("core", len, fs, box, pos)
    IN  IF ~wrap THEN Outcome("none", Line(len), fs, NoSearch)
        ELSE IF s.error # "none" THEN Outcome(s.error, NoBlock, 0, s)
        ELSE Outcome("none", s.wrapped, s.font_size, s)

\* Text.render of text.py: self.size measures the unwrapped text with
\* font=self._used_font_size, an int, which has no getsize
TextRender(wrap, len, fs, box, pos) ==
    LET s == ShrinkToBox("text", len, fs, box, pos)
    IN  IF ~wrap THEN Outcome("AttributeError", NoBlock, 0, NoSearch)
        ELSE IF s.error # "none" THEN Outcome(s.error, NoBlock, 0, s)
        ELSE IF NotLeq(TextSize(s.wrapped, s.font_size), box)
        THEN Outcome("overflow", NoBlock, 0, s)
        ELSE Outcome("none", Line(len), s.font_size, s)

CallTextRender(engine, wrap, len, fs, box, pos) ==
    /\ call.op = "init"
    /\ call' = [op |-> "text", engine |-> engine, wrap |-> wrap, len |-> len,
                font_size |-> fs, size |-> box, position |-> pos]
    /\ result' = IF engine = "core" THEN CoreTextRender(wrap, len, fs, box, pos)
                 ELSE TextRender(wrap, len, fs, box, pos)
    /\ UNCHANGED <<parent, name, children, attrs, image, repeated, trace,
                   argsortTies, nops, npasses>>

TextNext ==
    FromInit /\ \E engine \in TextEngines, wrap \in BOOLEAN, len \in 0..MaxLen, fs \in 1..MaxFont,
       w \in 1..MaxBox, h \in 1..MaxBox, x \in (0 - 1)..1, y \in (0 - 1)..1 :
        CallTextRender(engine, wrap, len, fs, <<w, h>>, <<x, y>>)

SpecText == PlainInit /\ [][TextNext]_vars

\* ------------------------------------------------------------------ the last pass
Kids(p) == {children[p][i].node : i \in 1..Len(children[p])}

\* c was assigned to p's children and still is p's child
Attached(c, p) == c \in Kids(p) /\ parent[c] = p

RECURSIVE Ancestors(_, _)
Ancestors(n, k) ==
    IF k = 0 \/ parent[n] = None THEN {}
    ELSE {parent[n]} \cup Ancestors(parent[n], k - 1)

\* The graphics form trees: every registry entry is a child that points back
\* to the registry's owner under the entry's name, and no graphic is its own
\* ancestor.
IsTree ==
    /\ \A p \in Nodes : \A i \in 1..Len(children[p]) :
          /\ parent[children[p][i].node] = p
          /\ name[children[p][i].node] = children[p][i].name
    /\ \A n \in Nodes : n \notin Ancestors(n, NumNodes)

Failed == result.kind \notin {"ok", "none"}

\* The last call was n.render()
Rendered(n) == call = [op |-> "render", node |-> n]

\* The last call was n.render(), or a read of n.image that had to render
PassOn(n) == call.node = n /\ trace # << >>

Events(e) == SelectSeq(trace, LAMBDA x : x.ev = e)

PastesOnto(p) == SelectSeq(trace, LAMBDA x : x.ev = "paste" /\ x.dst = p)

\* The place of c among p's children in attach order
AttachIndex(p, c) == CHOOSE i \in 1..Len(children[p]) :
    /\ children[p][i].node = c
    /\ \A j \in 1..(i - 1) : children[p][j].node # c

\* The size of n's image after its rotation
RotatedSize(n) == Rotate(NewImage(SizeOf(n), color[n]), angle[n]).size

\* ------------------------------------------------------------------ C1
\* C1: when a parent is rendered, its children are pasted in ascending layer
\* order whatever the attach order, and children of equal layer in attach
\* order. Stated for a successful render() of the root of a tree.
C1_LayerThenAttachOrder ==
    \A p \in Nodes :
        (Rendered(p) /\ result = Ok /\ IsTree /\ parent[p] = None) =>
            LET ps == PastesOnto(p)
            IN  \A i, j \in 1..Len(ps) : i < j =>
                    \/ layer[ps[i].node] < layer[ps[j].node]
                    \/ /\ layer[ps[i].node] = layer[ps[j].node]
                       /\ AttachIndex(p, ps[i].node) < AttachIndex(p, ps[j].node)

\* The part of C1 that the code keeps: ascending layers.
C1_AscendingLayers ==
    \A p \in Nodes :
        (Rendered(p) /\ result = Ok /\ IsTree /\ parent[p] = None) =>
            LET ps == PastesOnto(p)
            IN  \A i, j \in 1..Len(ps) : i < j => layer[ps[i].node] <= layer[ps[j].node]

\* With a sort that keeps equal keys in place, C1 holds as stated.
C1_HoldsWhenSortIsStable == argsortTies = "stable" => C1_LayerThenAttachOrder

\* ------------------------------------------------------------------ C2
\* C2: within a render pass a child's image is fully composed before it is
\* pasted onto its parent: the pasted image already holds every child of the
\* pasted graphic, and nothing is pasted onto that graphic later in the pass.
C2_ComposedBeforePasted ==
    (trace # << >> /\ result = Ok /\ IsTree) =>
        \A i \in 1..Len(trace) : trace[i].ev = "paste" =>
            /\ \A g \in Kids(trace[i].node) :
                   \E k \in 1..Len(trace[i].img.ops) : trace[i].img.ops[k].src = g
            /\ \A j \in (i + 1)..Len(trace) :
                   ~(trace[j].ev = "paste" /\ trace[j].dst = trace[i].node)

\* C2 for a pass started at the root of a tree, where it holds.
C2_FromTheRoot ==
    \A r \in Nodes : (PassOn(r) /\ parent[r] = None) => C2_ComposedBeforePasted

\* ------------------------------------------------------------------ C9
Count(e, n) == Len(SelectSeq(trace, LAMBDA x : x.ev = e /\ x.node = n))

\* C9: in one pass, whichever node of the tree it is started on, each node's
\* background is allocated at most once and each child is pasted at most once.
C9_AtMostOnce ==
    (trace # << >> /\ IsTree) =>
        \A n \in Nodes : Count("alloc", n) <= 1 /\ Count("paste", n) <= 1

\* C9 for a pass started at the root of a tree, where it holds.
C9_FromTheRoot ==
    \A r \in Nodes : (PassOn(r) /\ parent[r] = None) => C9_AtMostOnce

\* ------------------------------------------------------------------ C10
Top(stk) == stk[Len(stk)]

\* C10: a node's image is written only during that node's own render(), and
\* the paste onto a parent is made by the parent's render, not by the child's.
C10_OnlyOwnRenderWrites ==
    \A i \in 1..Len(trace) : trace[i].ev = "paste" =>
        /\ \E k \in 1..Len(trace[i].stack) : trace[i].stack[k] = trace[i].dst
        /\ Top(trace[i].stack) = trace[i].dst

\* ------------------------------------------------------------------ C8
\* The graphics whose render() the exception of the last pass unwound
Unwound == {trace[Len(trace)].stack[k] : k \in 1..Len(trace[Len(trace)].stack)}

\* p's image holds a paste of each of p's children
Complete(p) == \A c \in Kids(p) : \E k \in 1..Len(image[p].ops) : image[p].ops[k].src = c

\* C8: when a node of the subtree fails to render, the render of each
\* ancestor fails as a whole and leaves no partial composite behind: the
\* ancestor's .image has nothing to hand out, or an image holding every child.
C8_NoPartialComposite ==
    (trace # << >> /\ Failed /\ IsTree) =>
        \A p \in Unwound \ {result.node} : image[p] = NoImage \/ Complete(p)

\* The part of C8 that the code keeps: the failure reaches the caller.
C8_FailureReachesTheCaller ==
    \A i \in 1..Len(trace) : trace[i].ev = "raise" => (i = Len(trace) /\ Failed)

\* ------------------------------------------------------------------ C3
ExactlyOneOfPositionAndParent(n) == (position[n] = NoPos) # (parent[n] = None)

Detached(n) == [kind |-> "detached", node |-> n]

\* C3: render() fails whenever exactly one of position and parent is set,
\* before anything is allocated; with both set or both unset that check does
\* not fail.
C3_DetachedPosition ==
    \A n \in Nodes : Rendered(n) =>
        IF ExactlyOneOfPositionAndParent(n)
        THEN result = Detached(n) /\ Len(trace) = 2 /\ Events("alloc") = << >>
        ELSE result # Detached(n)

C3_Witness ==
    \E n \in Nodes :
        /\ Rendered(n)
        /\ parent[n] # None
        /\ position[n] = NoPos
        /\ result = Detached(n)

\* ------------------------------------------------------------------ C4
\* c is a child of p, placed on it, whose rotated image is larger than p
Oversized(c, p) ==
    /\ Attached(c, p)
    /\ position[c] # NoPos
    /\ \E k \in 1..2 : RotatedSize(c)[k] > SizeOf(p)[k]

\* C4, to the letter: render() on the parent of an oversized child fails with
\* the oversized-child error.
C4_FailsWithOversize ==
    \A p, c \in Nodes : (Rendered(p) /\ Oversized(c, p)) => result.kind = "oversize"

\* C4: render() on the parent of an oversized child fails, the oversized child is never
\* pasted onto it, and whenever the child's render gets past its own first
\* checks the error it raises is the oversized-child error.
C4_NeverPastedAlwaysFails ==
    \A p, c \in Nodes : (Rendered(p) /\ Oversized(c, p)) =>
        /\ Failed
        /\ \A i \in 1..Len(trace) :
               ~(trace[i].ev = "paste" /\ trace[i].node = c /\ trace[i].dst = p)
        /\ result.node = c => result.kind \in {"oversize", "detached", "boring", "recursion"}

\* An oversized child whose declared size fits and whose rotated size does not
C4_Witness ==
    \E p, c \in Nodes :
        /\ Rendered(p)
        /\ Oversized(c, p)
        /\ \A k \in 1..2 : SizeOf(c)[k] <= SizeOf(p)[k]
        /\ result = [kind |-> "oversize", node |-> c]

\* ------------------------------------------------------------------ C5
TopLevelRenders == SelectSeq(trace, LAMBDA x : x.ev = "enter" /\ Len(x.stack) = 1)

\* C5: reading .image renders exactly once when no image is cached and
\* otherwise returns the cached image without rendering; changing colour,
\* position, layer, angle or children leaves every cached image as it is.
C5_ImageIsCached ==
    [][/\ nops' # nops => image' = image
       /\ \A n \in Nodes : call' = [op |-> "image", node |-> n] =>
              IF image[n] # NoImage
              THEN image' = image /\ trace' = << >> /\ npasses' = npasses
              ELSE /\ npasses' = npasses + 1
                   /\ Len(SelectSeq(trace', LAMBDA x : x.ev = "enter" /\ Len(x.stack) = 1)) = 1
                   /\ trace'[1].ev = "enter" /\ trace'[1].node = n]_vars

\* A read of .image that returned an image older than the colour now set
C5_Witness ==
    \E n \in Nodes :
        /\ call = [op |-> "image", node |-> n]
        /\ trace = << >>
        /\ image[n] # NoImage
        /\ image[n].bg # color[n]

\* ------------------------------------------------------------------ C6
LastAlloc(n) == CHOOSE i \in 1..Len(trace) :
    /\ trace[i].ev = "alloc" /\ trace[i].node = n
    /\ \A j \in (i + 1)..Len(trace) : ~(trace[j].ev = "alloc" /\ trace[j].node = n)

PastesSinceLastAlloc(n) ==
    SelectSeq(SubSeq(trace, LastAlloc(n) + 1, Len(trace)),
              LAMBDA x : x.ev = "paste" /\ x.dst = n)

\* Every render() that succeeds leaves an image built in that call: a
\* background of the current colour carrying exactly the pastes made since it
\* was allocated.
C6_BuiltAfresh ==
    \A n \in Nodes : (Rendered(n) /\ result = Ok) =>
        LET made == PastesSinceLastAlloc(n)
            ops == image[n].ops
        IN  /\ image[n].bg = color[n]
            /\ Len(ops) = Len(made)
            /\ \A k \in 1..Len(ops) : ops[k].src = made[k].node /\ ops[k].img = made[k].img

\* In a tree every paste is of a current child, in ascending order of the
\* current layers; a graphic assigned to itself pastes itself onto itself.
C6_FromCurrentChildren ==
    \A n \in Nodes : (Rendered(n) /\ result = Ok /\ IsTree) =>
        /\ \A k \in 1..Len(image[n].ops) : image[n].ops[k].src \in Kids(n)
        /\ \A i, j \in 1..Len(image[n].ops) : i < j =>
               layer[image[n].ops[i].src] <= layer[image[n].ops[j].src]

\* C6: render() discards the cached image and builds a new one from a fresh
\* background, the current colour and the current children and layers.
C6_Theorem == C6_BuiltAfresh /\ C6_FromCurrentChildren

\* render() after a rendered child was removed: the new image is without it
C6_Witness ==
    \E n, r \in Nodes :
        /\ Rendered(n) /\ result = Ok /\ npasses = 2
        /\ parent[r] = n /\ r \notin Kids(n) /\ image[r] # NoImage
        /\ image[n].ops = << >>

\* ------------------------------------------------------------------ C7
\* C7: rendering the same unchanged tree twice gives the same image and the
\* same sequence of allocations and pastes.
C7_SameTwice ==
    [][\A n \in Nodes :
          (Rendered(n) /\ call' = call /\ npasses' = npasses + 1 /\ IsTree /\ parent[n] = None) =>
              image' = image /\ trace' = trace /\ result' = result]_vars

\* C7 for any node of a tree: fails, a child rendered again is pasted again
\* onto the image its parent has cached.
C7_AnyNode ==
    [][\A n \in Nodes :
          (Rendered(n) /\ call' = call /\ npasses' = npasses + 1 /\ IsTree) =>
              image' = image /\ trace' = trace /\ result' = result]_vars

\* C7 for the root's own image in any structure
C7_AnyStructure ==
    [][\A n \in Nodes :
          (Rendered(n) /\ call' = call /\ npasses' = npasses + 1 /\ parent[n] = None) =>
              image'[n] = image[n] /\ result' = result]_vars

\* The root of a tree with two children of equal layer, rendered twice
C7_Witness ==
    \E r \in Nodes :
        /\ Rendered(r) /\ repeated /\ result = Ok
        /\ IsTree /\ parent[r] = None
        /\ \E c, d \in Kids(r) : c # d /\ layer[c] = layer[d]
        /\ Len(PastesOnto(r)) = 2

\* ------------------------------------------------------------------ C11
\* C11: every entry name -> node of a registry has node.parent equal to the
\* registry's owner and node.name equal to the entry's name.
C11_BackReferences ==
    \A p \in Nodes : \A i \in 1..Len(children[p]) :
        /\ parent[children[p][i].node] = p
        /\ name[children[p][i].node] = children[p][i].name

\* ------------------------------------------------------------------ C12
\* C12: the parent relation stays a tree: no graphic is its own parent or its
\* own ancestor, so the parent links of every graphic end at a root.
C12_NoCycles == \A n \in Nodes : n \notin Ancestors(n, NumNodes)

\* ------------------------------------------------------------------ C13
\* C13: an attach of a graphic whose parent is another owner fails and leaves
\* the registries as they are, so no graphic is an entry of two registries.
C13_OneRegistry ==
    \A p, q \in Nodes : p # q => Kids(p) \cap Kids(q) = {}

\* ------------------------------------------------------------------ C14
\* C14: an attach under a name the registry already holds leaves the registry
\* unchanged: as long as a name stays in a registry it keeps its graphic.
C14_NameKeepsItsNode ==
    [][\A p \in Nodes : \A i \in 1..Len(children[p]) : \A j \in 1..Len(children'[p]) :
          children'[p][j].name = children[p][i].name =>
              children'[p][j].node = children[p][i].node]_vars

\* ------------------------------------------------------------------ C16
\* C16: a remove takes the child out of its parent's registry and clears the
\* child's parent and name, leaving it a standalone root.
C16_RemoveClearsBackReferences ==
    [][\A p, c \in Nodes :
          (/\ Len(children'[p]) < Len(children[p])
           /\ \E i \in 1..Len(children[p]) : children[p][i].node = c
           /\ \A j \in 1..Len(children'[p]) : children'[p][j].node # c) =>
              parent'[c] = None /\ name'[c] = NoName]_vars

\* ------------------------------------------------------------------ C20
\* C20: render() of a graphic with no children and no colour succeeds and
\* leaves a transparent image of the graphic's size.
C20_TransparentLeafRenders ==
    \A n \in Nodes :
        (/\ Rendered(n)
         /\ Len(children[n]) = 0 /\ color[n] = "None"
         /\ parent[n] = None /\ position[n] = NoPos) =>
            result = Ok /\ image[n] = NewImage(SizeOf(n), "None")

\* ------------------------------------------------------------------ C19
\* The size of c's image once turned by its angle
TurnedSize(c) == IF angle[c] = 90 THEN <<SizeOf(c)[2], SizeOf(c)[1]>> ELSE SizeOf(c)

\* The box of an image of size sz put with its upper left corner at pos on a
\* parent of size psz
BoxAt(pos, sz, psz) ==
    <<Min(Max(pos[1], 0), psz[1]), Min(Max(pos[2], 0), psz[2]),
      Min(Max(pos[1] + sz[1], 0), psz[1]), Min(Max(pos[2] + sz[2], 0), psz[2])>>

C15_RoundTrip ==
    (call.op = "remove" /\ call.undoes) =>
        LET was == call.before[call.owner]
            now == children[call.owner]
        IN  /\ Len(now) = Len(was)
            /\ {now[i].name : i \in 1..Len(now)} = {was[i].name : i \in 1..Len(was)}
            /\ now = was
            /\ children = call.before

\* A graphic assigned to a registry that holds another one, and removed again
C15_Witness ==
    /\ call.op = "remove" /\ call.undoes
    /\ \E i \in 1..Len(children[call.owner]) : children[call.owner][i].node # call.node

\* ------------------------------------------------------------------ C17
\* Twice the corner of the formula: the reference point of the frame, plus the
\* position (y negated in the center frame), minus the offset of the anchor
TwiceFormula(psize, pos, frame, anch, imsize) ==
    LET ref2 == IF frame = "center" THEN psize ELSE <<0, 0>>
        tr == IF frame = "center" THEN <<pos[1], 0 - pos[2]>> ELSE pos
        off2 == IF anch = "center" THEN imsize ELSE <<0, 0>>
    IN  <<ref2[1] + 2 * tr[1] - off2[1], ref2[2] + 2 * tr[2] - off2[2]>>

TwiceFormulaOfCall ==
    TwiceFormula(call.psize, call.position, call.coordinate_frame, call.anchor, call.imsize)

\* C17, to the letter: the corner is the value of the formula.
C17_CornerIsFormula ==
    call.op = "_get_render_box" =>
        \A d \in 1..2 : 2 * result.corner1[d] = TwiceFormulaOfCall[d]

\* C17: the corner is the value of the formula with a half pixel cut off
\* toward zero; parent (4,4), image (2,2), position (0,0), frame center give
\* (2,2) with anchor upper left and (1,1) with anchor center.
C17_CornerIsFormulaTruncated ==
    call.op = "_get_render_box" =>
        /\ \A d \in 1..2 :
               LET f2 == TwiceFormulaOfCall[d]
                   c == result.corner1[d]
               IN  \/ 2 * c = f2
                   \/ f2 > 0 /\ 2 * c = f2 - 1
                   \/ f2 < 0 /\ 2 * c = f2 + 1
        /\ (/\ call.psize = <<4, 4>> /\ call.imsize = <<2, 2>> /\ call.position = <<0, 0>>
            /\ call.coordinate_frame = "center") =>
               result.corner1 = IF call.anchor = "center" THEN <<1, 1>> ELSE <<2, 2>>

\* The scenario of the claim, with the anchor at the center
C17_Witness ==
    /\ call.op = "_get_render_box"
    /\ call.psize = <<4, 4>> /\ call.imsize = <<2, 2>> /\ call.position = <<0, 0>>
    /\ call.coordinate_frame = "center" /\ call.anchor = "center"
    /\ result.corner1 = <<1, 1>>

\* ------------------------------------------------------------------ C18
Clamp(v, hi) == IF v < 0 THEN 0 ELSE IF v > hi THEN hi ELSE v

C18_WitnessClamped ==
    /\ call.op = "_get_render_box"
    /\ result.box[1] = 0 /\ result.corner1[1] < 0
    /\ result.box[3] = call.psize[1] /\ result.corner1[1] + call.imsize[1] > call.psize[1]

\* ------------------------------------------------------------------ C30
\* C30: what a Shape with a parent pastes onto the parent is its image after
\* the polygon cut-out.
C30_CutBeforePasted ==
    \A i \in 1..Len(trace) :
        (trace[i].ev = "paste" /\ trace[i].node \in Shapes) => trace[i].img.bg = "cut"

\* ------------------------------------------------------------------ C21
Stored(v) == v.kind = "vector" /\ v.cls \in PositiveClasses

\* C21: a positive two-tuple that comes out of a construction or of an
\* arithmetic operation holds no component <= 0.
C21_PositiveComponents ==
    /\ call.op \in {"construct", "trait"} /\ Stored(result) => result.x > 0 /\ result.y > 0
    /\ call.op = "arithmetic" /\ Stored(result.value) =>
           result.value.x > 0 /\ result.value.y > 0

\* C21 for node sizes: the size a node holds after an assignment is positive.
C21_PositiveSize ==
    call.op = "size" => result.held[1] > 0 /\ result.held[2] > 0

\* ------------------------------------------------------------------ C25
\* C25: assigning a component by index or by attribute fails and leaves the
\* vector as it was; arithmetic, in place or not, leaves both operands alone.
C25_Immutable ==
    /\ call.op \in {"setitem", "setattr"} =>
           result.kind # "set" /\ result.receiver = call.receiver
    /\ call.op = "arithmetic" =>
           result.receiver = call.receiver /\ result.other = call.other

\* ------------------------------------------------------------------ C26
\* C26: anchor and coordinate_frame accept 'upper left' and 'center' and
\* nothing else; a refused assignment leaves the held value.
C26_TwoValuesAccepted ==
    call.op = "flag" =>
        IF call.value \in {"upper left", "center"}
        THEN ~result.raised /\ result.held = call.value
        ELSE result.raised /\ result.held = call.held

\* ------------------------------------------------------------------ C27
\* C27: clamping a clamped vector with the same bounds gives the clamped vector.
C27_ClampIdempotent ==
    call.op = "clamp" => result.twice = result.once

C28_WitnessInside ==
    /\ call.op = "crop"
    /\ ~result.cropped
    /\ result.free_box[1] > 0

\* ------------------------------------------------------------------ C22
AvailableOfCall == Available(call.engine, call.size, call.position)

\* C22: without wrapping, a text that measures more than the size available
\* fails as an overflow and nothing is drawn; a text that fits is drawn on
\* one line.
C22_OverflowOrOneLine ==
    (call.op = "text" /\ ~call.wrap) =>
        IF NotLeq(TextSize(Line(call.len), call.font_size), call.size)
        THEN result.error = "overflow" /\ result.drawn = NoBlock
        ELSE result.error = "none" /\ result.drawn = Line(call.len)

\* ------------------------------------------------------------------ C23
\* C23: a search that does not accept fails for want of a fitting size, and
\* no font is ever loaded with a size <= 0.
C23_SearchEndsProperly ==
    (call.op = "text" /\ call.wrap) =>
        /\ result.error \in {"none", "no fitting size"}
        /\ \A i \in 1..Len(result.search.loaded) : result.search.loaded[i] > 0

\* ------------------------------------------------------------------ C24
\* n lines fit the width at font size fs
FitsWidth(len, fs, n, w) ==
    len \div n > 0 /\ TextSize(TextWrap(len, len \div n), fs)[1] <= w

\* n is the least line count that fits the width at font size fs
LeastLines(len, fs, n, w) ==
    FitsWidth(len, fs, n, w) /\ \A m \in 1..(n - 1) : ~FitsWidth(len, fs, m, w)

\* the block of the least line count fits the width and the height at fs
BlockFits(len, fs, box) ==
    \E n \in 1..len :
        LeastLines(len, fs, n, box[1]) /\ TextSize(TextWrap(len, len \div n), fs)[2] <= box[2]

\* C24: an accepted font size is the nominal size less a number of steps, the
\* block fits the width and the height with the least line count for the
\* width, and at no size tried before did the block fit.
C24_FirstFittingSize ==
    (call.op = "text" /\ call.wrap /\ result.search.error = "none") =>
        LET s == result.search
            fs == s.font_size
            step == Step(call.engine)
        IN  /\ fs <= call.font_size /\ fs > 0
            /\ (call.font_size - fs) % step = 0
            /\ LeastLines(call.len, fs, s.n_lines, AvailableOfCall[1])
            /\ s.wrapped = TextWrap(call.len, call.len \div s.n_lines)
            /\ TextSize(s.wrapped, fs)[1] <= AvailableOfCall[1]
            /\ TextSize(s.wrapped, fs)[2] <= AvailableOfCall[2]
            /\ \A bigger \in (fs + 1)..call.font_size :
                   (call.font_size - bigger) % step = 0 =>
                       ~BlockFits(call.len, bigger, AvailableOfCall)

\* A search that shrank the font and wrapped the text
C24_Witness ==
    /\ call.op = "text" /\ call.wrap /\ result.search.error = "none"
    /\ result.search.font_size < call.font_size
    /\ result.search.n_lines > 1

\* ------------------------------------------------------------------ C29
\* C29: with wrapping, what Text.render of the later engine draws is the
\* wrapped block of the search, at the font size of the search.
C29_DrawsWrappedBlock ==
    (call.op = "text" /\ call.engine = "text" /\ call.wrap /\ result.error = "none") =>
        result.drawn = result.search.wrapped /\ result.font_size = result.search.font_size

====
